---- MODULE Spec2Model ----
(***************************************************************************)
(* Model of the two HTTP service stubs of kubearchit:                      *)
(*   src/backend/main.py  (metrics + log forwarding to logstash:5044)      *)
(*   src/test/main.py     (plain logging to stderr)                        *)
(*                                                                         *)
(* A behaviour is one process: the module-level statements of the chosen   *)
(* file are executed one at a time (import), and once the module has been  *)
(* imported the web framework serves requests.  An uncaught exception in a *)
(* module-level statement ends the process.                                *)
(*                                                                         *)
(* The root handler is modelled statement by statement, so that requests   *)
(* served by several workers interleave at statement granularity; a single *)
(* event loop (the handler has no await) only produces a subset of these   *)
(* interleavings.                                                          *)
(***************************************************************************)
EXTENDS Integers, Sequences, FiniteSets, TLC

\* ---------------------------------------------------------------- bounds
NumReq == 3
Requests == 1..NumReq

\* ------------------------------------------------------ program constants
NOTSET == 0
INFO == 20
WARNING == 30
HTTP_OK == 200
HTTP_NOT_FOUND == 404

Variants == {"backend", "test"}
Paths == {"/", "/metrics"}

VARIABLES
    variant,        \* which file this process runs
    reachable,      \* environment: logstash:5044 accepts TCP connections
    proc,           \* "importing" | "serving" | "crashed"
    line,           \* next module-level statement (source line number)
    excn,           \* the uncaught exception that ended the process
    routes,         \* paths registered on app
    instrumented,   \* Instrumentator middleware installed on app
    loggerLevel,    \* level of logging.getLogger(__name__)
    rootLevel,      \* level of the root logger
    loggerHandlers, \* handlers of the module logger
    rootHandlers,   \* handlers of the root logger
    hdl,            \* the object bound to logstash_handler
    sock,           \* "none" | "created" | "connected"
    connects,       \* number of successful connect() calls
    req,            \* per request: path, position, response
    stderr,         \* lines written to sys.stderr
    wire,           \* lines written to the TCP connection
    metricCount     \* requests counted by the instrumentation middleware

appVars == <<proc, line, excn, routes, instrumented, loggerLevel, rootLevel,
             loggerHandlers, rootHandlers, hdl, sock, connects>>
vars == <<variant, reachable, proc, line, excn, routes, instrumented,
          loggerLevel, rootLevel, loggerHandlers, rootHandlers, hdl, sock,
          connects, req, stderr, wire, metricCount>>

\* --------------------------------------------------------- library facts
\* Instance attributes of logging.StreamHandler(stream): there is a
\* `stream` attribute and no `socket` attribute.
StreamHandlerAttrs == {"stream", "formatter", "level", "filters", "lock"}

\* Methods a stream must offer for StreamHandler.emit to succeed:
\* sys.stderr has write(); a socket.socket object has send()/sendall() only.
StreamHasWrite(stream) == stream = "stderr"

\* Field names referenced by a %-style format string.
BackendFormat == <<"asctime", "levelname", "message">>
TestFormat == <<"asctime", "levelname", "message">>

NoHandler == [stream |-> "none", level |-> NOTSET, kind |-> "none",
              fields |-> <<>>, sep |-> ""]

\* ------------------------------------------------------- handler constants
LogMessage == "Received request at /"
\* Mutant: a different greeting.
HelloBody_Other == [message |-> "Hello World"]

HelloBody == [message |-> "Hello from FastAPI"]
NoBody == [message |-> ""]
MetricsBody == [message |-> "# HELP/# TYPE exposition"]
JsonType == "application/json"
ExpositionType == "text/plain; version=0.0.4; charset=utf-8"

\* Mutant: the handler returns before it logs.
RootBody_ReturnFirst == <<"return", "log">>

\* The statements of `async def root()` in order.
RootBody == <<"log", "return">>

IdleReq == [path |-> "/", st |-> "idle", pc |-> 0, status |-> 0,
            body |-> NoBody, ctype |-> ""]

\* ------------------------------------------------------------- logging
\* logging.Formatter / jsonlogger.JsonFormatter applied to the record of
\* request r: one value per field the format string names; asctime is the
\* formatted creation time of the record, abstracted to one token.
FieldValue(f, msg) ==
    CASE f = "asctime" -> "<time>"
      [] f = "levelname" -> "INFO"
      [] f = "message" -> msg
      [] OTHER -> ""

Format(h, r, msg) ==
    [req |-> r, kind |-> h.kind, sep |-> h.sep, term |-> "\n",
     fields |-> [i \in 1..Len(h.fields) |-> h.fields[i]],
     values |-> [i \in 1..Len(h.fields) |-> FieldValue(h.fields[i], msg)]]

\* What StreamHandler.handleError prints when emit raised.
LoggingError(r) ==
    [req |-> r, kind |-> "logging_error", sep |-> "", term |-> "\n",
     fields |-> <<>>, values |-> <<>>]

\* Logger.getEffectiveLevel of the module logger (its parent is root).
EffectiveLevel(lvl, rootLvl) == IF lvl # NOTSET THEN lvl ELSE rootLvl

\* Mutant: the root handler is reached twice (handler attached twice).
HandlersFor_Twice(own, root) == own \o root \o root

\* Logger.callHandlers: the logger's handlers, then (propagate) root's.
HandlersFor(own, root) == own \o root

\* StreamHandler.emit on each handler in turn: a stream with write() gets
\* the formatted line plus terminator; on any exception handleError reports
\* on sys.stderr and the exception is not propagated.
RECURSIVE EmitAll(_, _, _, _, _)
EmitAll(hs, r, msg, err, net) ==
    IF hs = <<>> THEN <<err, net>>
    ELSE LET h == Head(hs) IN
         IF INFO < h.level THEN EmitAll(Tail(hs), r, msg, err, net)
         ELSE IF h.stream = "stderr"
              THEN EmitAll(Tail(hs), r, msg, Append(err, Format(h, r, msg)), net)
         ELSE IF StreamHasWrite(h.stream)
              THEN EmitAll(Tail(hs), r, msg, err, Append(net, Format(h, r, msg)))
         ELSE EmitAll(Tail(hs), r, msg, Append(err, LoggingError(r)), net)

\* Mutant: each emission replaces what the stream held (a shared buffer
\* overwritten by concurrent requests).
LoggerInfo_Overwrite(r, msg) ==
    EmitAll(HandlersFor(loggerHandlers, rootHandlers), r, msg, <<>>, <<>>)

\* logger.info(msg): dropped unless INFO is enabled; <<stderr', wire'>>.
LoggerInfo(r, msg) ==
    IF INFO < EffectiveLevel(loggerLevel, rootLevel)
    THEN <<stderr, wire>>
    ELSE EmitAll(HandlersFor(loggerHandlers, rootHandlers), r, msg, stderr, wire)

\* ---------------------------------------------------------------- state
\* A fresh interpreter: nothing imported yet, root logger at WARNING with
\* no handlers, no socket, no request received.
FirstLine(v) == IF v = "backend" THEN 7 ELSE 4

Init ==
    /\ variant \in Variants
    /\ reachable \in BOOLEAN
    /\ proc = "importing"
    /\ line = FirstLine(variant)
    /\ excn = "none"
    /\ routes = {}
    /\ instrumented = FALSE
    /\ loggerLevel = NOTSET
    /\ rootLevel = WARNING
    /\ loggerHandlers = <<>>
    /\ rootHandlers = <<>>
    /\ hdl = NoHandler
    /\ sock = "none"
    /\ connects = 0
    /\ req = [r \in Requests |-> IdleReq]
    /\ stderr = <<>>
    /\ wire = <<>>
    /\ metricCount = 0

\* Mutant: the statement is wrapped in try/except and the import goes on.
Uncaught_Swallowed(e) ==
    /\ proc' = "importing"
    /\ excn' = e
    /\ line' = line + 1

\* An exception raised by a module-level statement: nothing catches it,
\* the import fails and the process ends.
Uncaught(e) ==
    /\ proc' = "crashed"
    /\ excn' = e
    /\ line' = line

Goto(n) ==
    /\ proc' = "importing"
    /\ excn' = excn
    /\ line' = n

Started ==
    /\ proc' = "serving"
    /\ excn' = excn
    /\ line' = line

\* ------------------------------------------- src/backend/main.py, lines 7-18
BackendImport ==
    /\ variant = "backend"
    /\ proc = "importing"
    /\ UNCHANGED <<variant, reachable, req, stderr, wire, metricCount,
                   rootLevel, rootHandlers>>
    /\ CASE line = 7 ->      \* app = FastAPI()
              /\ routes' = {}
              /\ Goto(8)
              /\ UNCHANGED <<instrumented, loggerLevel, loggerHandlers, hdl,
                             sock, connects>>
         [] line = 8 ->      \* logger = logging.getLogger(__name__)
              /\ Goto(9)
              /\ UNCHANGED <<routes, instrumented, loggerLevel,
                             loggerHandlers, hdl, sock, connects>>
         [] line = 9 ->      \* logger.setLevel(logging.INFO)
              /\ loggerLevel' = INFO
              /\ Goto(10)
              /\ UNCHANGED <<routes, instrumented, loggerHandlers, hdl, sock,
                             connects>>
         [] line = 10 ->     \* StreamHandler(socket.socket(AF_INET, SOCK_STREAM))
              /\ sock' = "created"
              /\ hdl' = [stream |-> "socket", level |-> NOTSET,
                         kind |-> "text", fields |-> <<"message">>, sep |-> ""]
              /\ Goto(11)
              /\ UNCHANGED <<routes, instrumented, loggerLevel,
                             loggerHandlers, connects>>
         [] line = 11 ->     \* logstash_handler.socket.connect(('logstash', 5044))
              /\ UNCHANGED <<routes, instrumented, loggerLevel,
                             loggerHandlers, hdl>>
              /\ IF "socket" \notin StreamHandlerAttrs
                 THEN /\ Uncaught("AttributeError")
                      /\ UNCHANGED <<sock, connects>>
                 ELSE IF reachable
                 THEN /\ sock' = "connected"
                      /\ connects' = connects + 1
                      /\ Goto(12)
                 ELSE /\ Uncaught("OSError")
                      /\ UNCHANGED <<sock, connects>>
         [] line = 12 ->     \* formatter = jsonlogger.JsonFormatter(...)
              /\ Goto(13)
              /\ UNCHANGED <<routes, instrumented, loggerLevel,
                             loggerHandlers, hdl, sock, connects>>
         [] line = 13 ->     \* logstash_handler.setFormatter(formatter)
              /\ hdl' = [hdl EXCEPT !.kind = "json", !.fields = BackendFormat,
                                    !.sep = " "]
              /\ Goto(14)
              /\ UNCHANGED <<routes, instrumented, loggerLevel,
                             loggerHandlers, sock, connects>>
         [] line = 14 ->     \* logger.addHandler(logstash_handler)
              /\ loggerHandlers' = Append(loggerHandlers, hdl)
              /\ Goto(15)
              /\ UNCHANGED <<routes, instrumented, loggerLevel, hdl, sock,
                             connects>>
         [] line = 15 ->     \* Instrumentator().instrument(app).expose(app)
              /\ instrumented' = TRUE
              /\ routes' = routes \cup {"/metrics"}
              /\ Goto(17)
              /\ UNCHANGED <<loggerLevel, loggerHandlers, hdl, sock, connects>>
         [] line = 17 ->     \* @app.get("/") async def root(): ...
              /\ routes' = routes \cup {"/"}
              /\ Started
              /\ UNCHANGED <<instrumented, loggerLevel, loggerHandlers, hdl,
                             sock, connects>>

\* ---------------------------------------------- src/test/main.py, lines 4-9
TestImport ==
    /\ variant = "test"
    /\ proc = "importing"
    /\ UNCHANGED <<variant, reachable, req, stderr, wire, metricCount,
                   instrumented, loggerLevel, loggerHandlers, hdl, sock,
                   connects>>
    /\ CASE line = 4 ->      \* app = FastAPI()
              /\ routes' = {}
              /\ Goto(5)
              /\ UNCHANGED <<rootLevel, rootHandlers>>
         [] line = 5 ->      \* logging.basicConfig(level=INFO, format=...)
              /\ IF rootHandlers = <<>>
                 THEN /\ rootHandlers' =
                            <<[stream |-> "stderr", level |-> NOTSET,
                               kind |-> "text", fields |-> TestFormat,
                               sep |-> " - "]>>
                      /\ rootLevel' = INFO
                 ELSE UNCHANGED <<rootLevel, rootHandlers>>
              /\ Goto(6)
              /\ UNCHANGED routes
         [] line = 6 ->      \* logger = logging.getLogger(__name__)
              /\ Goto(8)
              /\ UNCHANGED <<routes, rootLevel, rootHandlers>>
         [] line = 8 ->      \* @app.get("/") async def root(): ...
              /\ routes' = routes \cup {"/"}
              /\ Started
              /\ UNCHANGED <<rootLevel, rootHandlers>>

\* ------------------------------------------------------------- requests
\* A client sends GET p once startup is over (the server binds its port only
\* after the module is imported; earlier attempts are not modelled).  A
\* process whose import failed listens on nothing: the connection is refused.  A serving process routes the request: an
\* unregistered path is answered 404; the metrics route is answered by the
\* instrumentation library; the root route enters root().
Arrive(r, p) ==
    /\ req[r].st = "idle"
    /\ proc \in {"serving", "crashed"}
    /\ UNCHANGED <<variant, reachable, stderr, wire>>
    /\ UNCHANGED appVars
    /\ IF proc = "crashed"
       THEN /\ req' = [req EXCEPT ![r] = [@ EXCEPT !.path = p, !.st = "refused"]]
            /\ UNCHANGED metricCount
       ELSE IF p \notin routes
       THEN /\ req' = [req EXCEPT ![r] = [@ EXCEPT !.path = p, !.st = "done",
                                          !.status = HTTP_NOT_FOUND,
                                          !.ctype = JsonType]]
            /\ metricCount' = IF instrumented THEN metricCount + 1 ELSE metricCount
       ELSE IF p = "/metrics"
       THEN /\ req' = [req EXCEPT ![r] = [@ EXCEPT !.path = p, !.st = "done",
                                          !.status = HTTP_OK,
                                          !.body = MetricsBody,
                                          !.ctype = ExpositionType]]
            /\ UNCHANGED metricCount
       ELSE /\ req' = [req EXCEPT ![r] = [@ EXCEPT !.path = p, !.st = "handling",
                                          !.pc = 1]]
            /\ UNCHANGED metricCount

\* root(), statement `logger.info("Received request at /")`
RootLog(r) ==
    /\ req[r].st = "handling"
    /\ req[r].pc \in 1..Len(RootBody)
    /\ RootBody[req[r].pc] = "log"
    /\ stderr' = LoggerInfo(r, LogMessage)[1]
    /\ wire' = LoggerInfo(r, LogMessage)[2]
    /\ req' = [req EXCEPT ![r] = [@ EXCEPT !.pc = @ + 1]]
    /\ UNCHANGED <<variant, reachable, metricCount>>
    /\ UNCHANGED appVars

\* root(), statement `return {"message": "Hello from FastAPI"}`; the
\* framework serialises the dict as the JSON body of a 200 response.
RootReturn(r) ==
    /\ req[r].st = "handling"
    /\ req[r].pc \in 1..Len(RootBody)
    /\ RootBody[req[r].pc] = "return"
    /\ req' = [req EXCEPT ![r] = [@ EXCEPT !.st = "done", !.status = HTTP_OK,
                                  !.body = HelloBody, !.ctype = JsonType]]
    /\ metricCount' = IF instrumented THEN metricCount + 1 ELSE metricCount
    /\ UNCHANGED <<variant, reachable, stderr, wire>>
    /\ UNCHANGED appVars

Next ==
    \/ BackendImport
    \/ TestImport
    \/ \E r \in Requests, p \in Paths : Arrive(r, p)
    \/ \E r \in Requests : RootLog(r)
    \/ \E r \in Requests : RootReturn(r)

Spec == Init /\ [][Next]_vars

\* =================================================================
\* Properties
\* =================================================================
ImportEnded == proc # "importing"

RootAnswered(r) == req[r].st = "done" /\ req[r].path = "/" /\ req[r].status # HTTP_NOT_FOUND

\* Request r has executed the logger.info statement of root().
PastLog(r) ==
    \/ req[r].st = "handling" /\ req[r].pc > 1
    \/ RootAnswered(r)

IsRecordOf(l, r) ==
    /\ l.req = r
    /\ \E i \in 1..Len(l.values) : l.fields[i] = "message" /\ l.values[i] = "Received request at /"

CountIn(s, r) == Cardinality({i \in 1..Len(s) : IsRecordOf(s[i], r)})

RecordCount(r) == CountIn(stderr, r) + CountIn(wire, r)

HandlerStep == \E r \in Requests : RootLog(r) \/ RootReturn(r)

\* C1: every answered GET / has status 200 and the body
\* {"message": "Hello from FastAPI"}, whatever was handled before, and a
\* step of the root handler changes no application state (routes, logger
\* configuration, socket, metrics counters).
C1_RootAlwaysHello ==
    /\ [](\A r \in Requests : RootAnswered(r) =>
             /\ req[r].status = 200
             /\ req[r].body = [message |-> "Hello from FastAPI"])
    /\ [][HandlerStep => UNCHANGED <<appVars, metricCount>>]_vars

C1_Witness ==
    /\ \A r \in Requests : RootAnswered(r) /\ req[r].status = 200
    /\ Len(stderr) = NumReq

\* C2: a root request that has executed its logging statement has exactly
\* one log record with the text "Received request at /", and a request that
\* has not has none.
C2_OneRecordPerRequest ==
    \A r \in Requests : RecordCount(r) = IF PastLog(r) THEN 1 ELSE 0

C2_Witness ==
    /\ RootAnswered(1) /\ RecordCount(1) = 1
    /\ RootAnswered(2) /\ RecordCount(2) = 1
    /\ req[3].st = "idle" /\ RecordCount(3) = 0

\* C3: in the log-forwarding variant with an unreachable collector the
\* import ends in an uncaught exception: the process never serves, the
\* root route is never registered and no request is handled.
C3_UnreachableFailsAtStartup ==
    (variant = "backend" /\ ~reachable) =>
        /\ proc # "serving"
        /\ line <= 11
        /\ (ImportEnded => proc = "crashed" /\ excn # "none")
        /\ "/" \notin routes
        /\ \A r \in Requests : req[r].st \in {"idle", "refused"}

C3_Witness ==
    /\ variant = "backend" /\ ~reachable
    /\ proc = "crashed"
    /\ \E r \in Requests : req[r].st = "refused" /\ req[r].path = "/"

\* C4 (as claimed): in the log-forwarding variant with a reachable
\* collector, startup ends with the TCP connection open and every log
\* record of the root handler is one newline-terminated line on it.
C4_ConnectedAndForwarding ==
    (variant = "backend" /\ reachable /\ ImportEnded) =>
        /\ proc = "serving"
        /\ sock = "connected"
        /\ \A r \in Requests : PastLog(r) =>
              /\ CountIn(wire, r) = 1
              /\ \A i \in 1..Len(wire) : wire[i].term = "\n"

\* C5 (as claimed): in the log-forwarding variant the socket has been
\* connected exactly once when startup has ended, before any request is
\* handled, and stays open.
C5_SocketOpenedOnce ==
    (variant = "backend" /\ reachable /\ ImportEnded) =>
        /\ connects = 1
        /\ sock = "connected"

C8_LogBeforeResponse ==
    \A r \in Requests : RootAnswered(r) => RecordCount(r) >= 1

C8_Witness ==
    /\ \E r \in Requests : req[r].st = "handling" /\ req[r].pc = 2 /\ RecordCount(r) = 1
    /\ \E r \in Requests : RootAnswered(r) /\ RecordCount(r) = 1

\* C9: under every interleaving of the statements of concurrent root
\* requests, each answered request has status 200 and the fixed body, and
\* the number of "Received request at /" records equals the number of
\* requests that have logged.
C9_ConcurrentRequestsIndependent ==
    /\ Len(stderr) + Len(wire) = Cardinality({r \in Requests : PastLog(r)})
    /\ \A i \in 1..Len(stderr) : IsRecordOf(stderr[i], stderr[i].req)
    /\ \A r \in Requests : RootAnswered(r) =>
          req[r].status = 200 /\ req[r].body.message = "Hello from FastAPI"

\* Two requests inside root() at once, answered in the opposite order.
C9_Witness ==
    /\ Len(stderr) = 2
    /\ stderr[1].req = 1 /\ stderr[2].req = 2
    /\ req[1].st = "handling" /\ req[1].pc = 2
    /\ RootAnswered(2)

====
